---------------------------- MODULE Spec2Model ----------------------------
(***************************************************************************)
(* A model of SpainIPChecker.py (class IPChecker): load_domains, then      *)
(* run(), which writes the CSV header and gathers one process_domain       *)
(* pipeline per loaded domain behind an asyncio.Semaphore.                 *)
(*                                                                         *)
(* Text is modelled as sequences of tokens.  A domain is a sequence of     *)
(* one-character strings; the output file is the flat sequence of tokens   *)
(* written to it, "\n" included, so that its lines are what a reader of    *)
(* the file finds by splitting at "\n".                                    *)
(*                                                                         *)
(* asyncio is cooperative: everything a coroutine does between two         *)
(* suspension points (the semaphore, the HTTP exchange, the sleep) is one  *)
(* atomic step of the model.                                               *)
(***************************************************************************)
EXTENDS Naturals, Sequences, FiniteSets

(***************************************************************************)
(* Bounds of the model.                                                    *)
(***************************************************************************)
\* Largest number of loaded domains run() is started with.
MaxDomains == 3
\* The semaphore's initial value, asyncio.Semaphore(500) in the source,
\* scaled so that a run can queue more domains than there are slots.
SemaphoreCap == 2
\* Largest number of lines of the domain file.
MaxLines == 5

(***************************************************************************)
(* Constants of the program.                                               *)
(***************************************************************************)
max_attempts == 3

\* The white-space characters str.strip() removes (lines hold no "\n":
\* the file is read line by line).
IsWhitespace(c) == c = " "

VARIABLES
    file_lines,        \* the lines of the domain file read so far
    seen_domains,      \* load_domains: the set seen_domains
    domains,           \* self.domains
    run_pc,            \* where main()/run() stands
    outfile,           \* the tokens written to the output file
    semaphore,         \* the value of the asyncio.Semaphore
    pc,                \* per pipeline: where run_with_semaphore(task) stands
    attempt,           \* per pipeline: check_domain's loop variable
    started,           \* per pipeline: the attempt numbers issued, in order
    in_flight,         \* per pipeline: the attempts whose session.get is pending
    sleeps,            \* per pipeline: the asyncio.sleep(0.5) calls made
    signature_seen,    \* per pipeline: some attempt saw a 200 with the signature
    transport_failed,  \* per pipeline: some attempt raised in session.get
    blocked_count,     \* self.blocked_count
    completed_checks,  \* self.completed_checks
    evidence,          \* the evidence files that exist
    proxy_url          \* self.proxy_url

vars == <<file_lines, seen_domains, domains, run_pc, outfile, semaphore, pc,
          attempt, started, in_flight, sleeps, signature_seen,
          transport_failed, blocked_count, completed_checks, evidence,
          proxy_url>>

loadVars == <<file_lines, seen_domains, domains>>
configVars == <<proxy_url>>
pipeVars == <<pc, attempt, started, in_flight, sleeps, signature_seen,
              transport_failed>>

(***************************************************************************)
(* Text helpers.                                                           *)
(***************************************************************************)
RECURSIVE LStrip(_)
LStrip(s) ==
    IF s # <<>> /\ IsWhitespace(Head(s)) THEN LStrip(Tail(s)) ELSE s

RECURSIVE RStrip(_)
RStrip(s) ==
    IF s # <<>> /\ IsWhitespace(s[Len(s)])
    THEN RStrip(SubSeq(s, 1, Len(s) - 1))
    ELSE s

\* str.strip()
Strip(s) == RStrip(LStrip(s))

\* c in s
Contains(s, c) == \E k \in 1..Len(s) : s[k] = c

\* s.startswith(c)
StartsWith(s, c) == Len(s) >= 1 /\ s[1] = c

\* The condition of load_domains on a stripped line.
WellFormed(domain) ==
    domain # <<>> /\ Contains(domain, ".") /\ ~StartsWith(domain, ".")

\* str(bool)
BoolStr(b) == IF b THEN "True" ELSE "False"

\* f"domain,isp_name,is_blocked\n"
HeaderLine == <<"domain", ",", "isp_name", ",", "is_blocked", "\n">>

\* The verdict line as it would be without its "\n".
FormatLineNoNewline(domain, is_blocked) ==
    domain \o <<",", "ES_DigiSpain", ",", BoolStr(is_blocked)>>

\* f"{domain},ES_DigiSpain,{is_blocked}\n"
FormatLine(domain, is_blocked) ==
    domain \o <<",", "ES_DigiSpain", ",", BoolStr(is_blocked), "\n">>

\* str(n) of a one-digit number, as an f-string formats it.
IntStr(n) == <<"0", "1", "2", "3", "4", "5", "6", "7", "8", "9">>[n + 1]

\* The components pathlib parses a string into: the pieces between "/",
\* without the empty ones (doubled or trailing "/") and without ".".
RECURSIVE Components(_, _)
Components(s, piece) ==
    LET kept == IF piece = <<>> \/ piece = <<".">> THEN <<>> ELSE <<piece>>
    IN  IF s = <<>> THEN kept
        ELSE IF Head(s) = "/" THEN kept \o Components(Tail(s), <<>>)
        ELSE Components(Tail(s), Append(piece, Head(s)))

\* Path(base) / segment: the components of base followed by those of the
\* segment; a segment that starts with "/" is absolute and replaces base.
PathJoin(base, segment) ==
    IF StartsWith(segment, "/")
    THEN << <<"/">> >> \o Components(segment, <<>>)
    ELSE base \o Components(segment, <<>>)

\* f"ES_DigiSpain_attempt{attempt}.html"
EvidenceFileName(n) == <<"ES_DigiSpain_attempt", IntStr(n), ".html">>

\* Path(self.html_dir) / domain / f"ES_DigiSpain_attempt{attempt}.html",
\* as the sequence of its components.
EvidencePath(domain, n) ==
    PathJoin(PathJoin(<< <<"html_content">> >>, domain), EvidenceFileName(n))

\* os.getenv(name): <<>> when the variable is not set, <<value>> when it is.
EnvValues == {<<>>, <<"">>, <<"user">>}

\* `not value` for the result of os.getenv.
Missing(value) == value = <<>> \/ value = <<"">>

\* None
NoProxy == <<>>

\* A result of os.getenv as an f-string formats it.
EnvStr(value) == IF value = <<>> THEN "None" ELSE value[1]

\* _build_proxy_url as it would be without the test on the credentials.
BuildProxyUrlUnchecked(username, password) ==
    <<"http://", EnvStr(username), "-type-residential-country-es-asn-",
      "ASN", ":", EnvStr(password), "@", "proxy.geonode.io", ":", "9000">>

\* _build_proxy_url: None (after the warning) when a credential is missing.
BuildProxyUrl(username, password) ==
    IF Missing(username) \/ Missing(password)
    THEN NoProxy
    ELSE <<"http://", EnvStr(username), "-type-residential-country-es-asn-",
           "ASN", ":", EnvStr(password), "@", "proxy.geonode.io", ":",
           "9000">>

(***************************************************************************)
(* The pipelines of a run: one per loaded domain, in submission order.     *)
(***************************************************************************)
Pipelines == DOMAIN pc

Running(i)  == pc[i] \in {"probing", "sleeping"}
Finished(i) == pc[i] \in {"finished", "failed"}

\* What the reporter does at a completion: not due (less than 2 s since the
\* last emission), printed, or print() raised.
ProgressOutcomes == {"skip", "printed", "raised"}

\* A response of session.get: its status and whether its body holds the
\* block signature.
Responses == [status : {200, 302}, signature : BOOLEAN]

\* The test of check_domain as it would be without the status.
IsBlockPageAnyStatus(response) == response.signature

\* check_domain's test of a response: status 200 and the signature in the
\* body.
IsBlockPage(response) == response.status = 200 /\ response.signature

(***************************************************************************)
(* load_domains as it would be without the seen_domains test.              *)
(***************************************************************************)
LoadLineNoDedup(line) ==
    /\ run_pc = "loading"
    /\ Len(file_lines) < MaxLines
    /\ file_lines' = Append(file_lines, line)
    /\ LET domain == Strip(line) IN
         IF WellFormed(domain)
         THEN /\ domains' = Append(domains, domain)
              /\ seen_domains' = seen_domains \cup {domain}
         ELSE UNCHANGED <<domains, seen_domains>>
    /\ UNCHANGED <<run_pc, outfile, semaphore, pipeVars, blocked_count,
                   completed_checks, evidence>>
    /\ UNCHANGED configVars

(***************************************************************************)
(* load_domains: one iteration of `for line in f`.                         *)
(***************************************************************************)
LoadLine(line) ==
    /\ run_pc = "loading"
    /\ Len(file_lines) < MaxLines
    /\ file_lines' = Append(file_lines, line)
    /\ LET domain == Strip(line) IN
         IF WellFormed(domain) /\ domain \notin seen_domains
         THEN /\ domains' = Append(domains, domain)
              /\ seen_domains' = seen_domains \cup {domain}
         ELSE UNCHANGED <<domains, seen_domains>>
    /\ UNCHANGED <<run_pc, outfile, semaphore, pipeVars, blocked_count,
                   completed_checks, evidence>>
    /\ UNCHANGED configVars

\* The end of the file: load_domains returns.
LoadEOF ==
    /\ run_pc = "loading"
    /\ run_pc' = "ready"
    /\ UNCHANGED <<loadVars, outfile, semaphore, pipeVars, blocked_count,
                   completed_checks, evidence>>
    /\ UNCHANGED configVars

(***************************************************************************)
(* run(): up to the await of asyncio.gather.                               *)
(***************************************************************************)
RunStart ==
    /\ run_pc = "ready"
    /\ run_pc' = "running"
    /\ outfile' = HeaderLine
    /\ semaphore' = SemaphoreCap
    /\ pc' = [i \in 1..Len(domains) |-> "queued"]
    /\ attempt' = [i \in 1..Len(domains) |-> 0]
    /\ started' = [i \in 1..Len(domains) |-> <<>>]
    /\ in_flight' = [i \in 1..Len(domains) |-> {}]
    /\ sleeps' = [i \in 1..Len(domains) |-> 0]
    /\ signature_seen' = [i \in 1..Len(domains) |-> FALSE]
    /\ transport_failed' = [i \in 1..Len(domains) |-> FALSE]
    /\ UNCHANGED <<loadVars, blocked_count, completed_checks, evidence>>
    /\ UNCHANGED configVars

(***************************************************************************)
(* run_with_semaphore as it would be if the task were awaited without      *)
(* taking a slot.                                                          *)
(***************************************************************************)
AcquireUnbounded(i) ==
    /\ run_pc = "running"
    /\ pc[i] = "queued"
    /\ \A j \in Pipelines : j < i => pc[j] # "queued"
    /\ pc' = [pc EXCEPT ![i] = "probing"]
    /\ attempt' = [attempt EXCEPT ![i] = 1]
    /\ started' = [started EXCEPT ![i] = Append(@, 1)]
    /\ in_flight' = [in_flight EXCEPT ![i] = @ \cup {1}]
    /\ UNCHANGED <<loadVars, run_pc, outfile, semaphore, sleeps,
                   signature_seen, transport_failed, blocked_count,
                   completed_checks, evidence>>
    /\ UNCHANGED configVars

(***************************************************************************)
(* run_with_semaphore: `async with semaphore` is entered, and the task     *)
(* runs up to the first session.get.  asyncio wakes waiters in the order   *)
(* in which they queued, which is the submission order.                    *)
(***************************************************************************)
Acquire(i) ==
    /\ run_pc = "running"
    /\ pc[i] = "queued"
    /\ semaphore > 0
    /\ \A j \in Pipelines : j < i => pc[j] # "queued"
    /\ semaphore' = semaphore - 1
    /\ pc' = [pc EXCEPT ![i] = "probing"]
    /\ attempt' = [attempt EXCEPT ![i] = 1]
    /\ started' = [started EXCEPT ![i] = Append(@, 1)]
    /\ in_flight' = [in_flight EXCEPT ![i] = @ \cup {1}]
    /\ UNCHANGED <<loadVars, run_pc, outfile, sleeps, signature_seen,
                   transport_failed, blocked_count, completed_checks,
                   evidence>>
    /\ UNCHANGED configVars

(***************************************************************************)
(* process_domain as it would be if only blocked domains were written.     *)
(***************************************************************************)
ProcessTailOmitsFalse(i, is_blocked, progress) ==
    /\ outfile' = IF is_blocked
                  THEN outfile \o FormatLine(domains[i], is_blocked)
                  ELSE outfile
    /\ completed_checks' = completed_checks + 1
    /\ pc' = [pc EXCEPT ![i] = IF progress = "raised" THEN "failed"
                                                      ELSE "finished"]
    /\ semaphore' = semaphore + 1
    /\ UNCHANGED <<attempt, started, sleeps>>

(***************************************************************************)
(* process_domain as it would be if completed_checks were incremented      *)
(* after the call of the reporter.                                         *)
(***************************************************************************)
ProcessTailCountsAfterReport(i, is_blocked, progress) ==
    /\ outfile' = outfile \o FormatLine(domains[i], is_blocked)
    /\ completed_checks' = IF progress = "raised" THEN completed_checks
                                                  ELSE completed_checks + 1
    /\ pc' = [pc EXCEPT ![i] = IF progress = "raised" THEN "failed"
                                                      ELSE "finished"]
    /\ semaphore' = semaphore + 1
    /\ UNCHANGED <<attempt, started, sleeps>>

(***************************************************************************)
(* process_domain after check_domain has returned is_blocked: the line is  *)
(* written, completed_checks incremented, the reporter possibly called,    *)
(* and `async with semaphore` left, by return or by the reporter's         *)
(* exception.  No await separates these from check_domain's return.        *)
(***************************************************************************)
ProcessTail(i, is_blocked, progress) ==
    /\ outfile' = outfile \o FormatLine(domains[i], is_blocked)
    /\ completed_checks' = completed_checks + 1
    /\ pc' = [pc EXCEPT ![i] = IF progress = "raised" THEN "failed"
                                                      ELSE "finished"]
    /\ semaphore' = semaphore + 1
    /\ UNCHANGED <<attempt, started, sleeps>>

\* The retry loop as it would be with `attempt <= max_attempts`.
NextAttemptOffByOne(i, progress) ==
    IF attempt[i] <= max_attempts
    THEN /\ pc' = [pc EXCEPT ![i] = "sleeping"]
         /\ sleeps' = [sleeps EXCEPT ![i] = @ + 1]
         /\ UNCHANGED <<outfile, completed_checks, semaphore, attempt,
                        started>>
    ELSE ProcessTail(i, FALSE, progress)

\* check_domain after an attempt that did not return True: sleep if
\* attempts remain, else return False.
NextAttemptOrFalse(i, progress) ==
    IF attempt[i] < max_attempts
    THEN /\ pc' = [pc EXCEPT ![i] = "sleeping"]
         /\ sleeps' = [sleeps EXCEPT ![i] = @ + 1]
         /\ UNCHANGED <<outfile, completed_checks, semaphore, attempt,
                        started>>
    ELSE ProcessTail(i, FALSE, progress)

\* asyncio.gather has scheduled one task per domain, and the event loop
\* runs each of them up to its first suspension (the semaphore or the first
\* session.get) before it polls for any I/O: while a task that has not run
\* yet could still take a slot, no response has arrived.
FirstPassPending ==
    /\ completed_checks = 0
    /\ semaphore > 0
    /\ \E j \in Pipelines : pc[j] = "queued"

\* A pending session.get as it would resolve if results were taken in
\* submission order.
ResolvingInOrder(i) ==
    /\ run_pc = "running"
    /\ pc[i] = "probing"
    /\ ~FirstPassPending
    /\ \A j \in Pipelines : j < i => Finished(j)
    /\ in_flight' = [in_flight EXCEPT ![i] = @ \ {attempt[i]}]

\* The pending session.get of pipeline i resolves.
Resolving(i) ==
    /\ run_pc = "running"
    /\ pc[i] = "probing"
    /\ ~FirstPassPending
    /\ in_flight' = [in_flight EXCEPT ![i] = @ \ {attempt[i]}]

\* A 200 response whose body holds the signature, and the evidence file is
\* saved: check_domain returns True.
AttemptBlocked(i, progress) ==
    /\ Resolving(i)
    /\ blocked_count' = blocked_count + 1
    /\ evidence' = evidence \cup {EvidencePath(domains[i], attempt[i])}
    /\ signature_seen' = [signature_seen EXCEPT ![i] = TRUE]
    /\ ProcessTail(i, TRUE, progress)
    /\ UNCHANGED <<loadVars, run_pc, transport_failed>>
    /\ UNCHANGED configVars

\* A 200 response whose body holds the signature, but mkdir or open of the
\* evidence file raises, so that no file is created: `except Exception`
\* swallows it.
AttemptBlockedSaveFails(i, progress) ==
    /\ Resolving(i)
    /\ blocked_count' = blocked_count + 1
    /\ signature_seen' = [signature_seen EXCEPT ![i] = TRUE]
    /\ NextAttemptOrFalse(i, progress)
    /\ UNCHANGED <<loadVars, run_pc, transport_failed, evidence>>
    /\ UNCHANGED configVars

\* A 200 response whose body holds the signature; open creates the evidence
\* file, then write or close raises (the disk is full): the file stays, and
\* `except Exception` swallows the error.  No action reads `evidence`, so
\* this form of the failure differs from the one above in `evidence` only;
\* it is followed in SpecBlockPages.
AttemptBlockedWriteFails(i, progress) ==
    /\ Resolving(i)
    /\ blocked_count' = blocked_count + 1
    /\ evidence' = evidence \cup {EvidencePath(domains[i], attempt[i])}
    /\ signature_seen' = [signature_seen EXCEPT ![i] = TRUE]
    /\ NextAttemptOrFalse(i, progress)
    /\ UNCHANGED <<loadVars, run_pc, transport_failed>>
    /\ UNCHANGED configVars

\* A response that is not a 200 holding the signature.
AttemptNotBlocked(i, response, progress) ==
    /\ Resolving(i)
    /\ ~IsBlockPage(response)
    /\ NextAttemptOrFalse(i, progress)
    /\ UNCHANGED <<loadVars, run_pc, signature_seen, transport_failed,
                   blocked_count, evidence>>
    /\ UNCHANGED configVars

\* A transport failure as it would be without the except clauses: the
\* exception leaves check_domain, process_domain and the semaphore.
AttemptErrorEscapes(i, progress) ==
    /\ Resolving(i)
    /\ transport_failed' = [transport_failed EXCEPT ![i] = TRUE]
    /\ pc' = [pc EXCEPT ![i] = "failed"]
    /\ semaphore' = semaphore + 1
    /\ UNCHANGED <<loadVars, run_pc, outfile, completed_checks, attempt,
                   started, sleeps, signature_seen, blocked_count, evidence>>
    /\ UNCHANGED configVars

\* session.get or response.text() raises: timeout, connection, TLS, DNS,
\* proxy.
AttemptError(i, progress) ==
    /\ Resolving(i)
    /\ transport_failed' = [transport_failed EXCEPT ![i] = TRUE]
    /\ NextAttemptOrFalse(i, progress)
    /\ UNCHANGED <<loadVars, run_pc, signature_seen, blocked_count, evidence>>
    /\ UNCHANGED configVars

\* The pending session.get of pipeline i returns `response`, and
\* check_domain goes on from it.
Respond(i, response, progress) ==
    \/ IsBlockPage(response) /\ AttemptBlocked(i, progress)
    \/ IsBlockPage(response) /\ AttemptBlockedSaveFails(i, progress)
    \/ AttemptNotBlocked(i, response, progress)

\* asyncio.sleep(0.5) returns and the loop issues the next attempt.
SleepDone(i) ==
    /\ run_pc = "running"
    /\ pc[i] = "sleeping"
    /\ pc' = [pc EXCEPT ![i] = "probing"]
    /\ attempt' = [attempt EXCEPT ![i] = @ + 1]
    /\ started' = [started EXCEPT ![i] = Append(@, attempt[i] + 1)]
    /\ in_flight' = [in_flight EXCEPT ![i] = @ \cup {attempt[i] + 1}]
    /\ UNCHANGED <<loadVars, run_pc, outfile, semaphore, sleeps,
                   signature_seen, transport_failed, blocked_count,
                   completed_checks, evidence>>
    /\ UNCHANGED configVars

(***************************************************************************)
(* asyncio.gather returns once every pipeline has returned; the file is    *)
(* closed and the summary printed.                                         *)
(***************************************************************************)
RunDone ==
    /\ run_pc = "running"
    /\ \A i \in Pipelines : pc[i] = "finished"
    /\ run_pc' = "done"
    /\ UNCHANGED <<loadVars, outfile, semaphore, pipeVars, blocked_count,
                   completed_checks, evidence>>
    /\ UNCHANGED configVars

(***************************************************************************)
(* asyncio.gather raises the first exception of a pipeline: run() leaves   *)
(* both `with` blocks by that exception, and asyncio.run cancels the       *)
(* pipelines that are still pending, which leave `async with semaphore`.   *)
(***************************************************************************)
RunAbort ==
    /\ run_pc = "running"
    /\ \E i \in Pipelines : pc[i] = "failed"
    /\ run_pc' = "aborted"
    /\ pc' = [i \in Pipelines |-> IF Finished(i) THEN pc[i] ELSE "cancelled"]
    /\ in_flight' = [i \in Pipelines |-> {}]
    /\ semaphore' = semaphore + Cardinality({i \in Pipelines : Running(i)})
    /\ UNCHANGED <<loadVars, outfile, attempt, started, sleeps,
                   signature_seen, transport_failed, blocked_count,
                   completed_checks, evidence>>
    /\ UNCHANGED configVars

(***************************************************************************)
(* Specifications.                                                         *)
(***************************************************************************)
\* The lines a domain file is made of: empty, blank, without a dot,
\* starting with a dot (also behind white space), and domains with and
\* without white space around them.
RawLines == { <<>>,
              <<" ">>,
              <<"a", "b">>,
              <<".", "b">>,
              <<" ", ".", "b">>,
              <<"a", ".", "b">>,
              <<" ", "a", ".", "b", " ">>,
              <<"b", ".", "a">>,
              <<"b", ".", "a", " ">> }

\* The domains a run is started with: distinct lines that load_domains
\* accepts, one of them the first with a "/" behind it.
DomainPool == << <<"a", ".", "b">>, <<"a", ".", "b", "/">>, <<"b", ".", "a">>,
                 <<"d", ".", "a">>, <<"e", ".", "a">> >>

\* __init__: the fields as the constructor leaves them, with the given
\* credentials in the environment; no pipeline exists before run().
ConstructedWith(username, password) ==
    /\ proxy_url = BuildProxyUrl(username, password)
    /\ outfile = <<>>
    /\ semaphore = 0
    /\ blocked_count = 0
    /\ completed_checks = 0
    /\ evidence = {}
    /\ pc = <<>>
    /\ attempt = <<>>
    /\ started = <<>>
    /\ in_flight = <<>>
    /\ sleeps = <<>>
    /\ signature_seen = <<>>
    /\ transport_failed = <<>>

\* __init__ with both credentials set.
Constructed == ConstructedWith(<<"user">>, <<"user">>)

\* The state after __init__, before load_domains reads the file.
InitLoad ==
    /\ Constructed
    /\ run_pc = "loading"
    /\ file_lines = <<>>
    /\ seen_domains = {}
    /\ domains = <<>>

NextLoad ==
    \/ \E line \in RawLines : LoadLine(line)
    \/ LoadEOF

SpecLoad == InitLoad /\ [][NextLoad]_vars

\* load_domains has loaded M domains, and run() has not started.
Loaded ==
    /\ run_pc = "ready"
    /\ \E M \in 0..MaxDomains :
         /\ domains = SubSeq(DomainPool, 1, M)
         /\ file_lines = domains
         /\ seen_domains = {domains[i] : i \in 1..M}

\* The state after load_domains, before run().
Init == Constructed /\ Loaded

Next ==
    \/ RunStart
    \/ \E i \in Pipelines : Acquire(i)
    \/ \E i \in Pipelines, r \in Responses, p \in ProgressOutcomes :
         Respond(i, r, p)
    \/ \E i \in Pipelines, p \in ProgressOutcomes : AttemptError(i, p)
    \/ \E i \in Pipelines : SleepDone(i)
    \/ RunDone
    \/ RunAbort

Spec == Init /\ [][Next]_vars

\* The state after load_domains when a credential is missing from the
\* environment: the constructor has printed its warning.
InitNoProxy ==
    /\ \E username, password \in EnvValues :
         /\ Missing(username) \/ Missing(password)
         /\ ConstructedWith(username, password)
    /\ Loaded

\* A run without credentials: session.get is called with proxy=None, which
\* aiohttp takes as "no proxy", and the request goes out directly.
SpecNoProxy == InitNoProxy /\ [][Next]_vars

\* The responses that are not a 200 holding the signature.
NonBlockResponses ==
    {r \in Responses : r.status # 200 \/ ~r.signature}

\* A run against servers that never answer with the block page.
NextNoBlockPage ==
    \/ RunStart
    \/ \E i \in Pipelines : Acquire(i)
    \/ \E i \in Pipelines, r \in NonBlockResponses, p \in ProgressOutcomes :
         Respond(i, r, p)
    \/ \E i \in Pipelines : SleepDone(i)
    \/ RunDone
    \/ RunAbort

SpecNoBlockPage == Init /\ [][NextNoBlockPage]_vars

\* A run in which every attempt is answered with the block page, and the
\* evidence is saved, or not saved, or left behind by a write that failed.
NextBlockPages ==
    \/ RunStart
    \/ \E i \in Pipelines : Acquire(i)
    \/ \E i \in Pipelines, p \in ProgressOutcomes :
         Respond(i, [status |-> 200, signature |-> TRUE], p)
    \/ \E i \in Pipelines, p \in ProgressOutcomes :
         AttemptBlockedWriteFails(i, p)
    \/ \E i \in Pipelines : SleepDone(i)
    \/ RunDone
    \/ RunAbort

SpecBlockPages == Init /\ [][NextBlockPages]_vars

(***************************************************************************)
(* Reading the output file back.                                           *)
(***************************************************************************)
\* The places of the line ends in a file.
LineEnds(tokens) == {e \in 1..Len(tokens) : tokens[e] = "\n"}

\* The line that the line end at place e ends: the tokens after the line
\* end before it, or from the start of the file.
LineAt(tokens, e) ==
    LET before == {b \in 1..(e - 1) : tokens[b] = "\n"}
        from == IF before = {} THEN 1
                ELSE 1 + CHOOSE b \in before : \A c \in before : c <= b
    IN  SubSeq(tokens, from, e - 1)

\* The line ends of the lines after the first (the header).
VerdictEnds(tokens) ==
    LET ends == LineEnds(tokens)
    IN  {e \in ends : \E b \in ends : b < e}

\* The text of a verdict line, without its line end.
VerdictText(domain, is_blocked) ==
    domain \o <<",", "ES_DigiSpain", ",",
                IF is_blocked THEN "True" ELSE "False">>

\* The places in the output of the verdict lines of pipeline i's domain.
LinesOf(i) ==
    {e \in VerdictEnds(outfile) :
        LET line == LineAt(outfile, e)
        IN  \E v \in BOOLEAN : line = VerdictText(domains[i], v)}

\* Pipeline i's domain is recorded with verdict v.
Recorded(i, v) ==
    \E e \in VerdictEnds(outfile) :
        LineAt(outfile, e) = VerdictText(domains[i], v)

\* The number of verdict lines.
NumVerdictLines == Cardinality(VerdictEnds(outfile))

AllRecordedOnce == \A i \in 1..Len(domains) : Cardinality(LinesOf(i)) = 1

(***************************************************************************)
(* C1: every domain has at most one verdict line at every instant, and     *)
(* when run() has finished every loaded domain has exactly one, so that    *)
(* there are as many verdict lines as loaded domains; a domain whose       *)
(* attempts never showed the block page is recorded False, not left out.   *)
(***************************************************************************)
C1_OneVerdictPerDomain ==
    /\ \A i \in Pipelines : Cardinality(LinesOf(i)) <= 1
    /\ run_pc = "done" =>
         /\ AllRecordedOnce
         /\ NumVerdictLines = Len(domains)
         /\ \A i \in Pipelines : ~signature_seen[i] => Recorded(i, FALSE)

\* A finished run of more domains than slots in which one domain failed at
\* the transport level on the way to False and another is recorded True.
C1_Witness ==
    /\ run_pc = "done"
    /\ Len(domains) > SemaphoreCap
    /\ \E i, j \in Pipelines :
         /\ transport_failed[i] /\ ~signature_seen[i] /\ attempt[i] = 3
         /\ Recorded(i, FALSE)
         /\ Recorded(j, TRUE)

(***************************************************************************)
(* C2: the verdict written for a domain is True if and only if one of its  *)
(* attempts got a 200 response holding the block signature.                *)
(***************************************************************************)
C2_VerdictIffSignatureSeen ==
    \A i \in Pipelines :
        Finished(i) =>
            /\ Recorded(i, TRUE) <=> signature_seen[i]
            /\ Recorded(i, FALSE) <=> ~signature_seen[i]

(***************************************************************************)
(* C3: at every instant at most SemaphoreCap pipelines are between         *)
(* acquiring and releasing the semaphore, however many are queued.         *)
(***************************************************************************)
C3_ConcurrencyCap ==
    Cardinality({i \in Pipelines : Running(i)}) <= SemaphoreCap

\* Every slot is taken while a further domain is still queued.
C3_Witness ==
    /\ Len(domains) > SemaphoreCap
    /\ Cardinality({i \in Pipelines : Running(i)}) = SemaphoreCap
    /\ \E i \in Pipelines : pc[i] = "queued"

(***************************************************************************)
(* C4: a domain gets at most 3 attempts, numbered 1, 2, 3 in that order,   *)
(* and at most one of them is in flight at any instant: the one issued     *)
(* last.                                                                   *)
(***************************************************************************)
C4_SequentialAttempts ==
    \A i \in Pipelines :
        /\ Len(started[i]) <= 3
        /\ \A k \in 1..Len(started[i]) : started[i][k] = k
        /\ Cardinality(in_flight[i]) <= 1
        /\ in_flight[i] \subseteq {Len(started[i])}

\* The third attempt of a domain is in flight.
C4_Witness ==
    \E i \in Pipelines : started[i] = <<1, 2, 3>> /\ in_flight[i] = {3}

(***************************************************************************)
(* C5: a step in which an attempt fails at the transport level leaves the  *)
(* run running, leaves the domain's pipeline in the delay before its next  *)
(* attempt or with a False verdict written, and touches no other pipeline. *)
(***************************************************************************)
C5_TransportFailureContained ==
    [][\A i \in Pipelines, p \in ProgressOutcomes :
          AttemptError(i, p) =>
              /\ run_pc' = "running"
              /\ \/ pc'[i] = "sleeping" /\ attempt'[i] < 3
                 \/ Recorded(i, FALSE)'
              /\ pc'[i] # "failed" \/ p = "raised"
              /\ \A j \in Pipelines \ {i} : pc'[j] = pc[j]]_vars

\* A run ended with every domain recorded although one of them had a
\* transport failure, went through both delays and ended False.
C5_Witness ==
    /\ run_pc = "done"
    /\ AllRecordedOnce
    /\ Len(domains) >= 2
    /\ \E i \in Pipelines :
         transport_failed[i] /\ sleeps[i] = 2 /\ Recorded(i, FALSE)

(***************************************************************************)
(* C6: run() is at its end only when every pipeline has returned and every *)
(* domain has its verdict line, and no pipeline is dropped (cancelled      *)
(* without a verdict line) because another pipeline failed.                *)
(***************************************************************************)
C6_FullBarrier ==
    /\ run_pc = "done" =>
         /\ \A i \in Pipelines : pc[i] = "finished"
         /\ Pipelines = 1..Len(domains)
         /\ AllRecordedOnce
    /\ \A i, j \in Pipelines :
         ~(pc[j] = "failed" /\ pc[i] = "cancelled" /\ LinesOf(i) = {})

(***************************************************************************)
(* C7: every domain eventually has its verdict and run() eventually        *)
(* terminates.  Once run() has terminated no pipeline takes a step, so the *)
(* claim requires that run() has terminated only with every domain         *)
(* recorded.                                                               *)
(***************************************************************************)
C7_TerminatedWithEveryVerdict ==
    run_pc \in {"done", "aborted"} => AllRecordedOnce

(***************************************************************************)
(* C8: once every task has taken its first step, a pipeline whose attempt  *)
(* is pending can complete whatever the other pipelines are doing, and the *)
(* step in which its check_domain returns is the step that writes its      *)
(* verdict line, while the run is still running.                           *)
(***************************************************************************)
C8_NoHeadOfLineBlocking ==
    /\ [](\A i \in 1..MaxDomains :
            (/\ i \in Pipelines
             /\ run_pc = "running"
             /\ pc[i] = "probing"
             /\ ~FirstPassPending) =>
                ENABLED (\E p \in ProgressOutcomes : AttemptBlocked(i, p)))
    /\ [][\A i \in Pipelines :
            (Running(i) /\ ~Running(i)' /\ run_pc' = "running") =>
                /\ Cardinality(LinesOf(i))' = 1
                /\ Len(outfile') > Len(outfile)]_vars

\* The verdict of a later domain is in the output while an earlier domain
\* is still in flight and the run has not ended.
C8_Witness ==
    /\ run_pc = "running"
    /\ \E i, j \in Pipelines :
         /\ i < j
         /\ Running(i)
         /\ Cardinality(LinesOf(i)) = 0
         /\ Cardinality(LinesOf(j)) = 1

(***************************************************************************)
(* C9: once the run has started the output is made of whole lines: the     *)
(* header first, then lines `domain,ES_DigiSpain,True|False` of loaded     *)
(* domains, each ended by its own line end and at most one per domain, and *)
(* exactly one per domain when the run is done.                            *)
(***************************************************************************)
C9_WholeLines ==
    run_pc \in {"running", "done", "aborted"} =>
        /\ outfile # <<>> /\ outfile[Len(outfile)] = "\n"
        /\ \E e \in LineEnds(outfile) :
             /\ \A b \in LineEnds(outfile) : e <= b
             /\ LineAt(outfile, e) =
                    <<"domain", ",", "isp_name", ",", "is_blocked">>
        /\ \A e \in VerdictEnds(outfile) :
             \E i \in Pipelines, v \in BOOLEAN :
                 LineAt(outfile, e) = VerdictText(domains[i], v)
        /\ \A i \in Pipelines : Cardinality(LinesOf(i)) <= 1
        /\ run_pc = "done" => NumVerdictLines = Len(domains)

\* A finished run whose verdict lines are not in submission order.
C9_Witness ==
    /\ run_pc = "done"
    /\ Len(domains) = 3
    /\ \E e1, e2 \in VerdictEnds(outfile) :
         /\ e1 < e2
         /\ \E v \in BOOLEAN : LineAt(outfile, e1) = VerdictText(domains[2], v)
         /\ \E v \in BOOLEAN : LineAt(outfile, e2) = VerdictText(domains[1], v)

(***************************************************************************)
(* C10: the loaded domains are the stripped lines that are non-empty,      *)
(* contain a dot and do not start with a dot, each at its first            *)
(* occurrence only, in the order of these first occurrences.               *)
(***************************************************************************)
\* The claim's condition on a stripped line.
IsDomainLine(s) ==
    /\ Len(s) > 0
    /\ "." \in {s[k] : k \in 1..Len(s)}
    /\ s[1] # "."

\* The lines that are kept: well-formed, and no earlier line strips to the
\* same string.
FirstOccurrences ==
    {k \in 1..Len(file_lines) :
        /\ IsDomainLine(Strip(file_lines[k]))
        /\ \A j \in 1..(k - 1) : Strip(file_lines[j]) # Strip(file_lines[k])}

C10_LoadedDomains ==
    /\ Len(domains) = Cardinality(FirstOccurrences)
    /\ \A k \in FirstOccurrences :
         LET n == Cardinality({j \in FirstOccurrences : j <= k})
         IN  domains[n] = Strip(file_lines[k])

\* The file a.b, b.a, a.b, ab, .b has been loaded as a.b, b.a.
C10_Witness ==
    /\ run_pc = "ready"
    /\ file_lines = << <<"a", ".", "b">>, <<"b", ".", "a">>, <<"a", ".", "b">>,
                       <<"a", "b">>, <<".", "b">> >>
    /\ domains = << <<"a", ".", "b">>, <<"b", ".", "a">> >>

(***************************************************************************)
(* C11: the evidence path is injective in the domain and the attempt       *)
(* number: two attempts of one domain never have the same path, and two    *)
(* different domains recorded True have not written the same path.         *)
(***************************************************************************)
C11_EvidencePathInjective ==
    /\ \A i \in 1..Len(domains), n, m \in 1..max_attempts :
         n # m => EvidencePath(domains[i], n) # EvidencePath(domains[i], m)
    /\ \A i, j \in Pipelines :
         (i # j /\ Recorded(i, TRUE) /\ Recorded(j, TRUE))
             => EvidencePath(domains[i], attempt[i])
                    # EvidencePath(domains[j], attempt[j])

(***************************************************************************)
(* C12, as the code has it: without credentials the constructor leaves     *)
(* proxy_url at None and the run goes on to its end with every domain      *)
(* recorded once; the attempts are made without a proxy and a domain none  *)
(* of whose attempts saw the block page is recorded False.                 *)
(***************************************************************************)
C12_NoProxyRunProceeds ==
    /\ proxy_url = NoProxy
    /\ run_pc = "done" => AllRecordedOnce
    /\ \A i \in Pipelines :
         (Finished(i) /\ ~signature_seen[i])
             => (Recorded(i, FALSE) /\ ~Recorded(i, TRUE))

\* A finished run without a proxy in which one domain is recorded True, on
\* its first attempt, and another False.
C12_Witness ==
    /\ proxy_url = NoProxy
    /\ run_pc = "done"
    /\ \E i, j \in Pipelines :
         /\ Recorded(i, TRUE) /\ attempt[i] = 1 /\ ~transport_failed[i]
         /\ Recorded(j, FALSE)

(***************************************************************************)
(* C12, as the claim has it: without credentials every attempt ends as a   *)
(* transport failure, so that no attempt sees the block page and every     *)
(* domain is recorded False.                                               *)
(***************************************************************************)
C12_NoProxyEveryProbeFails ==
    proxy_url = NoProxy =>
        \A i \in Pipelines :
            /\ ~signature_seen[i]
            /\ ~Recorded(i, TRUE)
            /\ Finished(i) => (transport_failed[i] /\ Recorded(i, FALSE))

(***************************************************************************)
(* C13: check_domain returns True at once on the first attempt that sees   *)
(* the block page, with no further attempt and no delay after it, and      *)
(* nothing else ends the loop before the third attempt.                    *)
(***************************************************************************)
C13_TrueAtFirstBlocked ==
    \A i \in Pipelines :
        /\ signature_seen[i] => (Finished(i) /\ Recorded(i, TRUE))
        /\ (Finished(i) /\ attempt[i] < max_attempts) => Recorded(i, TRUE)

(***************************************************************************)
(* C14: a check that stands at attempt k has made k - 1 delays, or k while *)
(* it sleeps after attempt k; it never sleeps after the last attempt, and  *)
(* never after an attempt that saw the block page.                         *)
(***************************************************************************)
C14_DelaysBetweenAttempts ==
    \A i \in Pipelines :
        /\ (pc[i] = "probing" \/ Finished(i)) => sleeps[i] = attempt[i] - 1
        /\ pc[i] = "sleeping" =>
             /\ sleeps[i] = attempt[i]
             /\ attempt[i] < max_attempts
             /\ ~signature_seen[i]

(***************************************************************************)
(* C15: an evidence file of a domain exists exactly when the domain is     *)
(* recorded True, and then it is the one file labelled with the attempt    *)
(* that saw the block page; a domain recorded False, or not yet recorded,  *)
(* has none.                                                               *)
(***************************************************************************)
C15_EvidenceIffRecordedTrue ==
    \A i \in Pipelines, n \in 1..max_attempts :
        (EvidencePath(domains[i], n) \in evidence)
            <=> (Recorded(i, TRUE) /\ attempt[i] = n)

(***************************************************************************)
(* C16: blocked_count never exceeds the number of domains recorded True,   *)
(* and equals it when run() has finished.                                  *)
(***************************************************************************)
C16_BlockedCountIsTrueVerdicts ==
    LET recordedTrue == {i \in Pipelines : Recorded(i, TRUE)}
    IN  /\ blocked_count <= Cardinality(recordedTrue)
        /\ run_pc = "done" => blocked_count = Cardinality(recordedTrue)

(***************************************************************************)
(* C17: completed_checks never decreases; wherever another pipeline can    *)
(* run it equals the number of verdict lines written so far, it never      *)
(* exceeds the number of domains, and it equals that number when run() has *)
(* finished.                                                               *)
(***************************************************************************)
C17_CompletedChecksCountsVerdicts ==
    /\ [](/\ completed_checks = NumVerdictLines
          /\ completed_checks <= Len(domains)
          /\ run_pc = "done" => completed_checks = Len(domains))
    /\ [][/\ completed_checks' >= completed_checks
          /\ completed_checks' <= completed_checks + 1]_vars

\* A run of more domains than slots, not yet at its end, in which two
\* pipelines have completed, one of them with a failing reporter, while
\* another is in the middle of its attempts.
C17_Witness ==
    /\ run_pc = "running"
    /\ Len(domains) > SemaphoreCap
    /\ completed_checks = 2
    /\ \E i, j, k \in Pipelines :
         pc[i] = "finished" /\ pc[j] = "failed" /\ pc[k] = "sleeping"

(***************************************************************************)
(* C18: a response that is not a 200 holding the signature is never taken  *)
(* for the block page, whether it is another status with the signature in  *)
(* its body or a 200 without it: in a run that gets only such responses    *)
(* nothing is counted, saved or recorded as blocked, and every check ends  *)
(* False after its third attempt.                                          *)
(***************************************************************************)
C18_OnlyStatus200WithSignatureBlocks ==
    /\ blocked_count = 0
    /\ evidence = {}
    /\ \A i \in Pipelines :
         /\ ~signature_seen[i]
         /\ ~Recorded(i, TRUE)
         /\ Finished(i) => (Recorded(i, FALSE) /\ attempt[i] = max_attempts)

\* A finished run that got only such responses: every domain is recorded
\* False after three attempts.
C18_Witness ==
    /\ run_pc = "done"
    /\ Len(domains) >= 2
    /\ blocked_count = 0
    /\ \A i \in Pipelines :
         Recorded(i, FALSE) /\ attempt[i] = max_attempts
                            /\ ~transport_failed[i]

(***************************************************************************)
(* C19: a failure of the reporter at some pipeline's completion leaves the *)
(* scan as it would have been: run() is not ended by it and no sibling     *)
(* pipeline is cancelled.                                                  *)
(***************************************************************************)
C19_ReporterFailureHarmless ==
    (\E i \in Pipelines : pc[i] = "failed") =>
        /\ run_pc # "aborted"
        /\ \A j \in Pipelines : pc[j] # "cancelled"

=============================================================================
